---- MODULE Spec2Model ----
(***************************************************************************)
(* Model of webscraper.py: the Scraper pipeline (fetch, parse, scrape) and *)
(* the ScraperApp control surface (start_scrape, _run_scrape, check_queue, *)
(* populate_results, export_csv).                                          *)
(*                                                                         *)
(* Free text (URL, selector, node text, cell values) is a sequence of      *)
(* one-character strings, so that strip(), slicing and int() are computed. *)
(* The text of an exception or a dialog is a sequence of opaque pieces.    *)
(***************************************************************************)
EXTENDS Integers, Sequences, FiniteSets, TLC

(* ------------------------------ bounds -------------------------------- *)

\* Number of start_scrape invocations that pass validation in one run.
MaxInvocations == 2

(* --------------------------- program constants ------------------------ *)

\* text[:100] / get_text(strip=True)[:100]
SnippetLen == 100

(* ------------------------------ strings ------------------------------- *)

Space == " "
Digits == {"0", "1", "2", "3", "4", "5", "6", "7", "8", "9"}

\* the object None, where a string is expected
None == << "<None>" >>

RECURSIVE LStrip(_)
LStrip(s) ==
    IF s = <<>> THEN <<>>
    ELSE IF Head(s) = Space THEN LStrip(Tail(s)) ELSE s

RECURSIVE RStrip(_)
RStrip(s) ==
    IF s = <<>> THEN <<>>
    ELSE IF s[Len(s)] = Space THEN RStrip(SubSeq(s, 1, Len(s) - 1)) ELSE s

\* str.strip()
Strip(s) == RStrip(LStrip(s))

\* variant: the slice is left out
Prefix_NoCut(s, n) == s

\* s[:n]
Prefix(s, n) == SubSeq(s, 1, IF Len(s) < n THEN Len(s) ELSE n)

RECURSIVE Concat(_)
\* "".join(seq)
Concat(ss) == IF ss = <<>> THEN <<>> ELSE Head(ss) \o Concat(Tail(ss))

(* ----------------------------- documents ------------------------------ *)

\* A node of the tree BeautifulSoup builds: a text node (tag = <<>>) or an
\* element with a tag name, attributes and children.
TextNode(s) == [tag |-> <<>>, attrs |-> <<>>, text |-> s, kids |-> <<>>]
Element(t, a, k) == [tag |-> t, attrs |-> a, text |-> <<>>, kids |-> k]
IsText(n) == n.tag = <<>>

\* <p>007</p><p> l </p>
DocTwoP ==
    << Element(<<"p">>, <<>>, << TextNode(<<"0", "0", "7">>) >>),
       Element(<<"p">>, <<>>, << TextNode(<<" ", "l", " ">>) >>) >>

\* a document without any node
DocEmpty == <<>>

\* The response bodies the network can return.
Docs == {DocTwoP, DocEmpty}

\* <div> <span>w</span> h </div>
DocNested ==
    << Element(<<"d", "i", "v">>, <<>>,
               << TextNode(<<" ">>),
                  Element(<<"s", "p", "a", "n">>, <<>>, << TextNode(<<"w">>) >>),
                  TextNode(<<" ", "h", " ">>) >>) >>

\* <p> </p><a href="x">l</a><a>m</a>
DocLinks ==
    << Element(<<"p">>, <<>>, << TextNode(<<" ">>) >>),
       Element(<<"a">>, << <<"href", <<"x">> >> >>, << TextNode(<<"l">>) >>),
       Element(<<"a">>, <<>>, << TextNode(<<"m">>) >>) >>

\* a text one character longer than a snippet
LongText == [i \in 1..(SnippetLen + 1) |-> IF i = 1 THEN "b" ELSE "a"]

\* <p> b(a x 100) <a href="x">l</a></p>
DocLong ==
    << Element(<<"p">>, <<>>,
               << TextNode(<<" ">> \o LongText \o <<" ">>),
                  Element(<<"a">>, << <<"href", <<"x">> >> >>, << TextNode(<<"l">>) >>) >>) >>

\* The bodies parse is exercised on.
ParseDocs == Docs \cup {DocNested, DocLinks, DocLong}

RECURSIVE AllStrings_KeepEmpty(_)
\* variant: the strings that are empty after stripping are kept
AllStrings_KeepEmpty(nodes) ==
    IF nodes = <<>> THEN <<>>
    ELSE LET n == Head(nodes)
             here == IF IsText(n) THEN << Strip(n.text) >>
                                  ELSE AllStrings_KeepEmpty(n.kids)
         IN here \o AllStrings_KeepEmpty(Tail(nodes))

RECURSIVE AllStrings(_)
\* Tag._all_strings(strip=True) over a sequence of sibling nodes, in
\* document order: strip every text node, skip the empty ones.
AllStrings(nodes) ==
    IF nodes = <<>> THEN <<>>
    ELSE LET n == Head(nodes)
             here == IF IsText(n)
                     THEN (IF Strip(n.text) = <<>> THEN <<>> ELSE << Strip(n.text) >>)
                     ELSE AllStrings(n.kids)
         IN here \o AllStrings(Tail(nodes))

\* el.get_text(strip=True)
GetText(el) == Concat(AllStrings(<<el>>))

RECURSIVE Descendants(_)
\* all elements below a sequence of sibling nodes, in document order
Descendants(nodes) ==
    IF nodes = <<>> THEN <<>>
    ELSE LET n == Head(nodes)
         IN (IF IsText(n) THEN <<>> ELSE <<n>> \o Descendants(n.kids))
            \o Descendants(Tail(nodes))

RECURSIVE Filter(_, _)
Filter(els, t) ==
    IF els = <<>> THEN <<>>
    ELSE (IF Head(els).tag = t THEN << Head(els) >> ELSE <<>>) \o Filter(Tail(els), t)

Letters == {"a", "b", "p", "l", "u"}

\* A selector the matching grammar accepts: here a type selector, a
\* non-empty run of letters.
ValidSelector(sel) == sel # <<>> /\ \A i \in 1..Len(sel) : sel[i] \in Letters

\* soup.select("body *"): every element below a body element
BodyDescendants(doc) ==
    LET bodies == Filter(Descendants(doc), <<"b", "o", "d", "y">>)
    IN IF bodies = <<>> THEN <<>> ELSE Descendants(Head(bodies).kids)

\* soup.select(selector or "body *") for a valid selector
Select(doc, selector) ==
    IF selector = None \/ selector = <<>>
    THEN BodyDescendants(doc)
    ELSE Filter(Descendants(doc), selector)

(* ------------------------------ Scraper ------------------------------- *)

ScrapeResult(i, t, a, s) == [index |-> i, text |-> t, attr |-> a, snippet |-> s]

\* variant: el.get(attr) without the or ""
GetAttr_NoDefault(el, attr) ==
    IF \E i \in 1..Len(el.attrs) : el.attrs[i][1] = attr
    THEN (CHOOSE v \in {el.attrs[i][2] : i \in {j \in 1..Len(el.attrs) : el.attrs[j][1] = attr}} : TRUE)
    ELSE None

\* el.get(attr) or ""
GetAttr(el, attr) ==
    IF \E i \in 1..Len(el.attrs) : el.attrs[i][1] = attr
    THEN (CHOOSE v \in {el.attrs[i][2] : i \in {j \in 1..Len(el.attrs) : el.attrs[j][1] = attr}} : TRUE)
    ELSE <<>>

\* Exceptions: the class and the text str(e) gives, which is built from the
\* arguments only and does not name the class.
Exc(t, m) == [type |-> t, args |-> m]

\* variant: the text names the class, as f"{type(e).__name__}: {e}" does
Str_WithType(e) == <<e.type, ": ">> \o e.args

Str(e) == e.args

HTTPError404 == Exc("HTTPError", <<"404 Client Error: Not Found for url: ", "u">>)
ConnectionErr == Exc("ConnectionError", <<"Max retries exceeded with url">>)
SelectorSyntaxError == Exc("SelectorSyntaxError", <<"Malformed attribute selector at position 0">>)

\* What requests.get + raise_for_status can raise.
FetchErrors == {HTTPError404, ConnectionErr}

\* soup.select raises on a selector the grammar rejects
ParseRaises(selector, scrape_all) ==
    ~scrape_all /\ selector # None /\ selector # <<>> /\ ~ValidSelector(selector)

\* variant: the value is cut like the snippet
ParseAll_ValueCut(strings) ==
    [i \in 1..Len(strings) |->
        ScrapeResult(i, Prefix(strings[i], SnippetLen), "text",
                     Prefix(strings[i], SnippetLen))]

\* the SelectAll branch: one result per surviving string
ParseAll(strings) ==
    [i \in 1..Len(strings) |->
        ScrapeResult(i, strings[i], "text", Prefix(strings[i], SnippetLen))]

\* variant: enumerate without start=1
ParseSelected_ZeroBased(elements, attr) ==
    [i \in 1..Len(elements) |->
        ScrapeResult(i - 1,
                     IF attr = "text" THEN GetText(elements[i])
                                      ELSE GetAttr(elements[i], attr),
                     attr,
                     Prefix(GetText(elements[i]), SnippetLen))]

\* the loop over the matched elements
ParseSelected(elements, attr) ==
    [i \in 1..Len(elements) |->
        ScrapeResult(i,
                     IF attr = "text" THEN GetText(elements[i])
                                      ELSE GetAttr(elements[i], attr),
                     attr,
                     Prefix(GetText(elements[i]), SnippetLen))]

\* Scraper.parse, when it returns (the singleton sets bind `strings` and
\* `elements` to their value once, as the assignments in the code do)
Parse(html, selector, attr, scrape_all) ==
    IF scrape_all
    THEN CHOOSE r \in {ParseAll(strings) : strings \in {AllStrings(html)}} : TRUE
    ELSE CHOOSE r \in {ParseSelected(elements, attr) :
                          elements \in {Select(html, selector)}} : TRUE

(* --------------------------- ScraperApp state -------------------------- *)

VARIABLES
    worker,     \* per invocation: the thread running _run_scrape and its locals
    poller,     \* per invocation: the check_queue callback chain after() keeps
    consumed,   \* per invocation: whose Outcome the chain took (0: none yet)
    queue,      \* self.result_queue, one Queue made in __init__
    enqueued,   \* every Outcome put into the queue so far, in the order of the puts
    tree,       \* rows of self.tree, as stored by insert
    status,     \* self.status_var
    dialog,     \* the last messagebox shown
    csvfile     \* the rows of the last file export_csv wrote

vars == <<worker, poller, consumed, queue, enqueued, tree, status, dialog, csvfile>>

Invocations == 1..MaxInvocations

\* the local html of scrape: unset, or the one body fetch returned
NoHtml == <<>>
Body(doc) == <<doc>>
NoExc == Exc("", <<>>)
\* no file written: a written file has its header row at least
NoFile == <<>>
NoDialog == [kind |-> "none", title |-> "", message |-> <<>>]

IdleWorker ==
    [pc |-> "idle", url |-> <<>>, selector |-> None, attr |-> "", scrape_all |-> FALSE,
     html |-> NoHtml, exc |-> NoExc]

\* a thread that returned: its frame and locals are gone
DoneWorker == [IdleWorker EXCEPT !.pc = "done"]

\* The contents of the entry widgets when Scrape is pressed.
Request(u, s, a, f) == [url |-> u, selector |-> s, attr |-> a, scrape_all |-> f]

Requests ==
    { Request(<<>>, <<"p">>, "text", FALSE),
      Request(<<" ">>, <<"p">>, "text", TRUE),
      Request(<<"u">>, <<>>, "text", FALSE),
      Request(<<"u">>, <<" ">>, "href", FALSE),
      Request(<<" ", "u">>, <<"p", " ">>, "text", FALSE),
      Request(<<"u">>, <<"[">>, "text", FALSE),
      Request(<<"u">>, <<>>, "text", TRUE) }

\* the paths asksaveasfilename can return ("" when the dialog is cancelled)
FilePaths == {"", "out.csv"}

Init ==
    /\ worker = [i \in Invocations |-> IdleWorker]
    /\ poller = [i \in Invocations |-> "none"]
    /\ consumed = [i \in Invocations |-> 0]
    /\ queue = <<>>
    /\ enqueued = <<>>
    /\ tree = <<>>
    /\ status = <<"Ready">>
    /\ dialog = NoDialog
    /\ csvfile = NoFile

Started == {i \in Invocations : worker[i].pc # "idle"}

(* ----------------------------- start_scrape ---------------------------- *)

\* variant: the selector check is left out
start_scrape_NoSelectorCheck(req) ==
    LET url == Strip(req.url)
        selector == Strip(req.selector)
    IN IF url = <<>>
       THEN /\ dialog' = [kind |-> "showwarning", title |-> "Missing Fields",
                          message |-> <<"Please provide a URL.">>]
            /\ UNCHANGED <<worker, poller, consumed, queue, enqueued, tree, status, csvfile>>
       ELSE /\ Cardinality(Started) < MaxInvocations
            /\ LET i == Cardinality(Started) + 1
               IN /\ status' = <<"Scraping...">>
                  /\ worker' = [worker EXCEPT ![i] =
                        [pc |-> "fetch", url |-> url,
                         selector |-> IF selector = <<>> THEN None ELSE selector,
                         attr |-> req.attr, scrape_all |-> req.scrape_all,
                         html |-> NoHtml, exc |-> NoExc]]
                  /\ poller' = [poller EXCEPT ![i] = "scheduled"]
            /\ UNCHANGED <<consumed, queue, enqueued, tree, dialog, csvfile>>

start_scrape(req) ==
    LET url == Strip(req.url)
        selector == Strip(req.selector)
    IN IF url = <<>>
       THEN /\ dialog' = [kind |-> "showwarning", title |-> "Missing Fields",
                          message |-> <<"Please provide a URL.">>]
            /\ UNCHANGED <<worker, poller, consumed, queue, enqueued, tree, status, csvfile>>
       ELSE IF ~req.scrape_all /\ selector = <<>>
       THEN /\ dialog' = [kind |-> "showwarning", title |-> "Missing Fields",
                          message |-> <<"Please provide a CSS selector or enable full-page mode.">>]
            /\ UNCHANGED <<worker, poller, consumed, queue, enqueued, tree, status, csvfile>>
       ELSE /\ Cardinality(Started) < MaxInvocations
            /\ LET i == Cardinality(Started) + 1
               IN /\ status' = <<"Scraping...">>
                  /\ worker' = [worker EXCEPT ![i] =
                        [pc |-> "fetch", url |-> url,
                         selector |-> IF selector = <<>> THEN None ELSE selector,
                         attr |-> req.attr, scrape_all |-> req.scrape_all,
                         html |-> NoHtml, exc |-> NoExc]]
                  /\ poller' = [poller EXCEPT ![i] = "scheduled"]
            /\ UNCHANGED <<consumed, queue, enqueued, tree, dialog, csvfile>>

(* --------------------- _run_scrape / Scraper.scrape -------------------- *)

Outcome(st, d, w) == [status |-> st, data |-> d, src |-> w]

\* Scraper.fetch returns the body: scrape goes on to parse
FetchReturns(w) ==
    /\ worker[w].pc = "fetch"
    /\ \E doc \in Docs : worker' = [worker EXCEPT ![w].html = Body(doc), ![w].pc = "parse"]
    /\ UNCHANGED <<poller, consumed, queue, enqueued, tree, status, dialog, csvfile>>

\* variant: scrape swallows the fetch error and goes on to parse
FetchRaises_GoesOnToParse(w) ==
    /\ worker[w].pc = "fetch"
    /\ worker' = [worker EXCEPT ![w].pc = "parse"]
    /\ UNCHANGED <<poller, consumed, queue, enqueued, tree, status, dialog, csvfile>>

\* requests.get or raise_for_status raises: scrape is left, the except
\* clause of _run_scrape binds e
FetchRaises(w) ==
    /\ worker[w].pc = "fetch"
    /\ \E e \in FetchErrors : worker' = [worker EXCEPT ![w].exc = e, ![w].pc = "except"]
    /\ UNCHANGED <<poller, consumed, queue, enqueued, tree, status, dialog, csvfile>>

\* Scraper.parse returns and the success Outcome is put
ParseReturns(w) ==
    /\ worker[w].pc = "parse"
    /\ ~ParseRaises(worker[w].selector, worker[w].scrape_all)
    /\ \E msg \in {Outcome("success",
                            Parse(worker[w].html[1], worker[w].selector,
                                  worker[w].attr, worker[w].scrape_all), w)} :
          /\ queue' = Append(queue, msg)
          /\ enqueued' = Append(enqueued, msg)
    /\ worker' = [worker EXCEPT ![w] = DoneWorker]
    /\ UNCHANGED <<poller, consumed, tree, status, dialog, csvfile>>

\* Scraper.parse raises: the selector is rejected, or anything unexpected
UnexpectedError == Exc("RecursionError", <<"maximum recursion depth exceeded">>)

ParseFails(w) ==
    /\ worker[w].pc = "parse"
    /\ \E e \in (IF ParseRaises(worker[w].selector, worker[w].scrape_all)
                 THEN {SelectorSyntaxError} ELSE {UnexpectedError}) :
          worker' = [worker EXCEPT ![w].exc = e, ![w].pc = "except"]
    /\ UNCHANGED <<poller, consumed, queue, enqueued, tree, status, dialog, csvfile>>

\* variant: the worker reports the error in the status line itself
ExceptPut_SetsStatus(w) ==
    /\ worker[w].pc = "except"
    /\ queue' = Append(queue, Outcome("error", Str(worker[w].exc), w))
    /\ enqueued' = Append(enqueued, Outcome("error", Str(worker[w].exc), w))
    /\ status' = <<"Error occurred.">>
    /\ worker' = [worker EXCEPT ![w] = DoneWorker]
    /\ UNCHANGED <<poller, consumed, tree, dialog, csvfile>>

\* variant: the except clause swallows the error and puts nothing
ExceptPut_Silent(w) ==
    /\ worker[w].pc = "except"
    /\ worker' = [worker EXCEPT ![w] = DoneWorker]
    /\ UNCHANGED <<poller, consumed, queue, enqueued, tree, status, dialog, csvfile>>

\* except Exception as e: self.result_queue.put(("error", str(e)))
ExceptPut(w) ==
    /\ worker[w].pc = "except"
    /\ queue' = Append(queue, Outcome("error", Str(worker[w].exc), w))
    /\ enqueued' = Append(enqueued, Outcome("error", Str(worker[w].exc), w))
    /\ worker' = [worker EXCEPT ![w] = DoneWorker]
    /\ UNCHANGED <<poller, consumed, tree, status, dialog, csvfile>>

_run_scrape(w) ==
    \/ FetchReturns(w)
    \/ FetchRaises(w)
    \/ ParseReturns(w)
    \/ ParseFails(w)
    \/ ExceptPut(w)

(* ------------------- check_queue / populate_results ------------------- *)

\* the values populate_results inserts for one result
Row(res) == <<res.index, res.text, res.snippet>>

\* variant: the rows are inserted without deleting the old ones first
populate_results_NoClear(results) == tree \o [i \in 1..Len(results) |-> Row(results[i])]

populate_results(results) == [i \in 1..Len(results) |-> Row(results[i])]

\* variant: a LIFO queue hands out the newest message
Get_Newest(q) == q[Len(q)]

\* Queue.get_nowait on a non-empty queue: the oldest message
Get(q) == Head(q)

\* variant: the newest message is removed instead of the oldest
Rest_DropNewest(q) == SubSeq(q, 1, Len(q) - 1)

Rest(q) == Tail(q)

\* variant: an empty queue ends the chain instead of rescheduling it
check_queue_NoReschedule(p) ==
    /\ poller[p] = "scheduled"
    /\ IF queue = <<>>
       THEN /\ poller' = [poller EXCEPT ![p] = "stopped"]
            /\ UNCHANGED <<worker, consumed, queue, enqueued, tree, status, dialog, csvfile>>
       ELSE LET msg == Get(queue)
            IN /\ queue' = Rest(queue)
               /\ poller' = [poller EXCEPT ![p] = "stopped"]
               /\ consumed' = [consumed EXCEPT ![p] = msg.src]
               /\ IF msg.status = "success"
                  THEN /\ tree' = populate_results(msg.data)
                       /\ status' = <<"Scraped", Len(msg.data), "items.">>
                       /\ UNCHANGED dialog
                  ELSE /\ dialog' = [kind |-> "showerror", title |-> "Error",
                                     message |-> msg.data]
                       /\ status' = <<"Error occurred.">>
                       /\ UNCHANGED tree
               /\ UNCHANGED <<worker, enqueued, csvfile>>

\* variant: a blocking get(): the control thread waits for a message
check_queue_Blocking(p) ==
    /\ poller[p] = "scheduled"
    /\ queue # <<>>
    /\ LET msg == Get(queue)
       IN /\ queue' = Rest(queue)
          /\ poller' = [poller EXCEPT ![p] = "stopped"]
          /\ consumed' = [consumed EXCEPT ![p] = msg.src]
          /\ IF msg.status = "success"
             THEN /\ tree' = populate_results(msg.data)
                  /\ status' = <<"Scraped", Len(msg.data), "items.">>
                  /\ UNCHANGED dialog
             ELSE /\ dialog' = [kind |-> "showerror", title |-> "Error",
                                message |-> msg.data]
                  /\ status' = <<"Error occurred.">>
                  /\ UNCHANGED tree
          /\ UNCHANGED <<worker, enqueued, csvfile>>

\* variant: one tick drains the queue and handles the oldest message
check_queue_Drain(p) ==
    /\ poller[p] = "scheduled"
    /\ IF queue = <<>>
       THEN /\ poller' = [poller EXCEPT ![p] = "scheduled"]
            /\ UNCHANGED <<worker, consumed, queue, enqueued, tree, status, dialog, csvfile>>
       ELSE LET msg == Get(queue)
            IN /\ queue' = <<>>
               /\ poller' = [poller EXCEPT ![p] = "stopped"]
               /\ consumed' = [consumed EXCEPT ![p] = msg.src]
               /\ IF msg.status = "success"
                  THEN /\ tree' = populate_results(msg.data)
                       /\ status' = <<"Scraped", Len(msg.data), "items.">>
                       /\ UNCHANGED dialog
                  ELSE /\ dialog' = [kind |-> "showerror", title |-> "Error",
                                     message |-> msg.data]
                       /\ status' = <<"Error occurred.">>
                       /\ UNCHANGED tree
               /\ UNCHANGED <<worker, enqueued, csvfile>>

check_queue(p) ==
    /\ poller[p] = "scheduled"
    /\ IF queue = <<>>
       THEN \* except Empty: self.after(100, self.check_queue)
            /\ poller' = [poller EXCEPT ![p] = "scheduled"]
            /\ UNCHANGED <<worker, consumed, queue, enqueued, tree, status, dialog, csvfile>>
       ELSE LET msg == Get(queue)
            IN /\ queue' = Rest(queue)
               /\ poller' = [poller EXCEPT ![p] = "stopped"]
               /\ consumed' = [consumed EXCEPT ![p] = msg.src]
               /\ IF msg.status = "success"
                  THEN /\ tree' = populate_results(msg.data)
                       /\ status' = <<"Scraped", Len(msg.data), "items.">>
                       /\ UNCHANGED dialog
                  ELSE /\ dialog' = [kind |-> "showerror", title |-> "Error",
                                     message |-> msg.data]
                       /\ status' = <<"Error occurred.">>
                       /\ UNCHANGED tree
               /\ UNCHANGED <<worker, enqueued, csvfile>>

(* ------------------------------ export_csv ----------------------------- *)

RECURSIVE DropZeros(_)
DropZeros(s) == IF Len(s) > 1 /\ Head(s) = "0" THEN DropZeros(Tail(s)) ELSE s

\* int(value) succeeds: a run of decimal digits
IsIntLiteral(s) == s # <<>> /\ \A i \in 1..Len(s) : s[i] \in Digits

\* a cell read back with tree.item(item)["values"] and written by csv.writer:
\* ttk turns every value int() accepts into that int, which is then written
\* in its canonical form
CsvField(v) == IF IsIntLiteral(v) THEN DropZeros(v) ELSE v

\* self.tree.item(item)["values"] as csv.writer writes it
ItemValues(row) == <<row[1], CsvField(row[2]), CsvField(row[3])>>

Header == <<"Index", "Value", "Snippet">>

\* variant: no check for an empty table, the header is written alone
export_csv_NoEmptyCheck(file_path) ==
    IF file_path = ""
    THEN UNCHANGED vars
    ELSE /\ csvfile' = <<Header>> \o [i \in 1..Len(tree) |-> ItemValues(tree[i])]
         /\ dialog' = [kind |-> "showinfo", title |-> "Exported",
                       message |-> <<"Data exported to ", file_path>>]
         /\ UNCHANGED <<worker, poller, consumed, queue, enqueued, tree, status>>

export_csv(file_path) ==
    IF tree = <<>>
    THEN /\ dialog' = [kind |-> "showinfo", title |-> "No Data",
                       message |-> <<"No scraped data to export.">>]
         /\ UNCHANGED <<worker, poller, consumed, queue, enqueued, tree, status, csvfile>>
    ELSE IF file_path = ""
    THEN UNCHANGED vars
    ELSE /\ csvfile' = <<Header>> \o [i \in 1..Len(tree) |-> ItemValues(tree[i])]
         /\ dialog' = [kind |-> "showinfo", title |-> "Exported",
                       message |-> <<"Data exported to ", file_path>>]
         /\ UNCHANGED <<worker, poller, consumed, queue, enqueued, tree, status>>

(* ---------------------------- specification ---------------------------- *)

Next ==
    \/ \E req \in Requests : start_scrape(req)
    \/ \E w \in Invocations : _run_scrape(w)
    \/ \E p \in Invocations : check_queue(p)
    \/ \E file_path \in FilePaths : export_csv(file_path)

Spec == Init /\ [][Next]_vars

\* Under a fair control loop every scheduled callback runs, and a started
\* thread keeps running: fetch returns or times out, the rest does not block.
FairSpec ==
    /\ Spec
    /\ WF_vars(\E w \in Invocations : _run_scrape(w))
    /\ WF_vars(\E p \in Invocations : check_queue(p))

\* The worker of one invocation at the point where fetch has returned: the
\* body and the arguments of the thread are drawn from the cases below, the
\* rest is as start_scrape left it.
ParseArgs ==
    {a \in [selector : {<<"p">>, <<"a">>, <<"[">>, None},
            attr : {"text", "href"},
            scrape_all : BOOLEAN] : a.scrape_all \/ a.selector # None}

ParseInit ==
    /\ \E doc \in ParseDocs, a \in ParseArgs :
          worker = [i \in Invocations |->
                      IF i = 1
                      THEN [pc |-> "parse", url |-> <<"u">>, selector |-> a.selector,
                            attr |-> a.attr, scrape_all |-> a.scrape_all,
                            html |-> Body(doc), exc |-> NoExc]
                      ELSE IdleWorker]
    /\ poller = [i \in Invocations |-> IF i = 1 THEN "scheduled" ELSE "none"]
    /\ consumed = [i \in Invocations |-> 0]
    /\ queue = <<>>
    /\ enqueued = <<>>
    /\ tree = <<>>
    /\ status = <<"Scraping...">>
    /\ dialog = NoDialog
    /\ csvfile = NoFile

ParseNext ==
    \/ \E w \in Invocations : ParseReturns(w)
    \/ \E w \in Invocations : ParseFails(w)
    \/ \E w \in Invocations : ExceptPut(w)
    \/ \E p \in Invocations : check_queue(p)

ParseSpec == ParseInit /\ [][ParseNext]_vars

(* ------------------------------- claims -------------------------------- *)

Last(q) == q[Len(q)]

\* the Outcomes of worker w: still queued, or taken by a chain
Queued(w) == {i \in 1..Len(queue) : queue[i].src = w}
TakenBy(w) == {p \in Invocations : consumed[p] = w}
Produced(w) == Cardinality(Queued(w)) + Cardinality(TakenBy(w))

Running(w) == worker[w].pc \in {"fetch", "parse", "except"}

\* C1: a worker started by a validated start_scrape enqueues exactly one
\* Outcome: none while it runs, one once it has returned, and it never stops
\* in between; the Outcome is "success" when parse returned and "error" when
\* fetch, parse or anything else raised.
C1_ExactlyOneOutcome ==
    /\ [](\A w \in Invocations :
            /\ Produced(w) = (IF worker[w].pc = "done" THEN 1 ELSE 0)
            /\ worker[w].pc \in {"parse", "except"} => ENABLED _run_scrape(w))
    /\ [][\A w \in Invocations :
            /\ (worker[w].pc # "done" /\ worker'[w].pc = "done")
                  => /\ worker[w].pc \in {"parse", "except"}
                     /\ queue' = Append(queue, Last(queue'))
                     /\ Last(queue').src = w
                     /\ Last(queue').status =
                           (IF worker[w].pc = "parse" THEN "success" ELSE "error")
            /\ (worker[w].pc = "done") => worker'[w].pc = "done"]_vars

\* both kinds of Outcome have been produced, one per worker
C1_Witness ==
    /\ \A w \in Invocations : worker[w].pc = "done"
    /\ \E i, j \in 1..Len(queue) : queue[i].status = "success" /\ queue[j].status = "error"

\* C2: with overlapping invocations, every Outcome a worker has enqueued is
\* eventually taken by a chain, no Outcome is taken twice, and every chain
\* that was started eventually stops rescheduling.
Pending == queue # <<>> \/ \E p \in Invocations : poller[p] = "scheduled"

HandedOverOnce ==
    \A w \in Invocations :
        /\ Cardinality(TakenBy(w)) <= 1
        /\ (worker[w].pc = "done" /\ Queued(w) = {}) => Cardinality(TakenBy(w)) = 1

C2_EventuallyConsumed ==
    /\ Pending ~> (~Pending /\ HandedOverOnce)
    /\ []HandedOverOnce

\* two invocations overlapped and both Outcomes were handed over
C2_Witness ==
    /\ \A p \in Invocations : poller[p] = "stopped" /\ consumed[p] # 0
    /\ queue = <<>>

\* a step in which chain p takes a message and stops
Takes(p) == poller[p] = "scheduled" /\ poller'[p] = "stopped"

\* C3 as stated: the Outcome a chain takes is the one its own invocation's
\* worker produced.
C3_OwnOutcomeOnly == \A p \in Invocations : consumed[p] \in {0, p}

\* C3, amended: the invocations share the one queue made in __init__; a chain
\* takes the oldest Outcome of that queue, whichever worker produced it, and
\* no Outcome is taken by two chains.
C3_SharedQueueOldestFirst ==
    /\ [][\A p \in Invocations :
            Takes(p) => /\ queue # <<>>
                        /\ consumed'[p] = Head(queue).src
                        /\ queue' = Tail(queue)]_vars
    /\ [](\A p, q \in Invocations :
            (p # q /\ consumed[p] # 0) => consumed[p] # consumed[q])

\* chain 1 has taken the Outcome of worker 2 while worker 1 is still running
C3_Witness == consumed[1] = 2 /\ Running(1)

\* C4: one execution of check_queue on an empty queue leaves the chain
\* scheduled once more and changes nothing; on a non-empty queue it removes
\* the oldest message only, handles it, and ends the chain, leaving the other
\* chains as they were.
C4_OneDequeuePerTick ==
    [][\A p \in Invocations :
          check_queue(p) =>
             IF queue = <<>>
             THEN /\ poller' = poller
                  /\ poller[p] = "scheduled"
                  /\ UNCHANGED <<worker, consumed, queue, tree, status, dialog, csvfile>>
             ELSE /\ Len(queue') = Len(queue) - 1
                  /\ queue' = Tail(queue)
                  /\ poller' = [poller EXCEPT ![p] = "stopped"]
                  /\ IF Head(queue).status = "success"
                     THEN /\ tree' = [i \in 1..Len(Head(queue).data) |->
                                        <<i, Head(queue).data[i].text,
                                          Head(queue).data[i].snippet>>]
                          /\ status' = <<"Scraped", Len(Head(queue).data), "items.">>
                     ELSE /\ dialog'.kind = "showerror"
                          /\ dialog'.message = Head(queue).data
                          /\ status' = <<"Error occurred.">>]_vars

\* a chain ended on one message while another message stayed queued for the
\* chain that is still scheduled
C4_Witness ==
    /\ queue # <<>>
    /\ \E p, q \in Invocations : poller[p] = "stopped" /\ poller[q] = "scheduled"

\* C5: parse runs only on the body fetch returned; when fetch raises, the
\* worker goes to the except clause with no body, never to parse, and the
\* Outcome it puts is the error variant.
C5_ParseOnlyAfterFetch ==
    /\ [](\A w \in Invocations :
            /\ worker[w].pc = "parse" => \E doc \in Docs : worker[w].html = <<doc>>
            /\ (worker[w].pc = "except" /\ worker[w].exc \in FetchErrors)
                  => worker[w].html = <<>>)
    /\ [][\A w \in Invocations :
            /\ (worker[w].pc = "fetch" /\ worker'[w].pc # "fetch")
                  => \/ worker'[w].pc = "parse" /\ \E doc \in Docs : worker'[w].html = <<doc>>
                     \/ /\ worker'[w].pc = "except"
                        /\ worker'[w].exc \in FetchErrors
                        /\ worker'[w].html = <<>>
            /\ (worker[w].pc = "except" /\ worker'[w] # worker[w])
                  => /\ worker'[w].pc = "done"
                     /\ queue' = Append(queue, Last(queue'))
                     /\ Last(queue').status = "error"]_vars

\* a 404 has been delivered as an error Outcome
C5_Witness ==
    \E i \in 1..Len(queue) :
        queue[i].status = "error" /\ queue[i].data = HTTPError404.args

\* a step in which worker w puts the error Outcome
PutsError(w) == worker[w].pc = "except" /\ worker'[w].pc = "done"

\* C6 as stated: the Failure names the kind of the error that was raised.
C6_FailureNamesErrorKind ==
    [][\A w \in Invocations :
          PutsError(w) => /\ Last(queue').data # <<>>
                          /\ Last(queue').data[1] = worker[w].exc.type]_vars

\* C6, amended: the Failure carries only the message text of the error the
\* failing stage raised, without the error's class, and the consumer is
\* shown exactly that text.
C6_FailureCarriesMessageText ==
    /\ [][\A w \in Invocations :
            PutsError(w) => /\ Last(queue').status = "error"
                            /\ Last(queue').data = worker[w].exc.args]_vars
    /\ [][\A p \in Invocations :
            (Takes(p) /\ Head(queue).status = "error")
               => /\ dialog'.kind = "showerror"
                  /\ dialog'.message = Head(queue).data]_vars

\* a 404 and a rejected selector have both been raised, one shown to the
\* user and one still queued
C6_Witness ==
    /\ dialog.kind = "showerror"
    /\ {dialog.message}
          \cup {queue[i].data : i \in {j \in 1..Len(queue) : queue[j].status = "error"}}
          = {HTTPError404.args, SelectorSyntaxError.args}

\* C7: while a worker is blocked in fetch, every action of the control
\* thread can run at once: each scheduled check_queue, start_scrape (up to
\* the modelled number of invocations) and export_csv.
C7_ControlThreadNeverWaits ==
    (\E w \in Invocations : worker[w].pc = "fetch")
       => /\ \A p \in Invocations : poller[p] = "scheduled" => ENABLED check_queue(p)
          /\ \A req \in Requests :
                (Strip(req.url) = <<>> \/ Cardinality(Started) < MaxInvocations)
                   => ENABLED start_scrape(req)
          /\ \A f \in FilePaths : ENABLED export_csv(f)

\* start_scrape has returned and a chain has handled a message while
\* another worker is still blocked in fetch and its chain keeps polling
C7_Witness ==
    \E w, v \in Invocations :
        /\ worker[w].pc = "fetch" /\ poller[w] = "scheduled"
        /\ poller[v] = "stopped" /\ queue = <<>>

\* C8: a step of a worker changes the queue and the worker's own locals
\* only; the results table and the status text change only in start_scrape
\* and check_queue (with populate_results).
C8_WorkerSharesOnlyQueue ==
    [][/\ \A w \in Invocations :
             _run_scrape(w) => UNCHANGED <<tree, status, dialog, csvfile, poller, consumed>>
       /\ (tree' # tree \/ status' # status)
             => \/ \E req \in Requests : start_scrape(req)
                \/ \E p \in Invocations : check_queue(p)]_vars

\* a worker has put its Outcome while the table and status of an earlier
\* scrape are on display
C8_Witness == queue # <<>> /\ tree # <<>> /\ status[1] = "Scraped"

\* the requests C9 is about
MissingUrl(req) == Strip(req.url) = <<>>
MissingSelector(req) == ~req.scrape_all /\ Strip(req.selector) = <<>>
Rejected(req) == MissingUrl(req) \/ MissingSelector(req)

\* C9: start_scrape with an empty URL, or with full-page mode off and an
\* empty selector, starts no worker, schedules no check_queue, enqueues
\* nothing and leaves status and table as they were; it only shows a warning.
C9_RejectedRequestChangesNothing ==
    [][\A req \in Requests :
          (Rejected(req) /\ start_scrape(req))
             => /\ UNCHANGED <<worker, poller, consumed, queue, tree, status, csvfile>>
                /\ dialog'.kind = "showwarning"]_vars

\* a request without selector was rejected while an earlier scrape is running
C9_Witness ==
    /\ dialog.kind = "showwarning"
    /\ dialog.message = <<"Please provide a CSS selector or enable full-page mode.">>
    /\ \E w \in Invocations : Running(w)
    /\ status = <<"Scraping...">>

\* the table rows of a result sequence
RowsOf(results) ==
    [i \in 1..Len(results) |-> <<results[i].index, results[i].text, results[i].snippet>>]

\* C10 as stated: after a Success was consumed, export_csv with a chosen path
\* writes the header and one row per result of that Success, also when the
\* Success was empty.
C10_ExportWritesLastSuccess ==
    [][\A f \in FilePaths :
          (f # "" /\ status[1] = "Scraped" /\ export_csv(f))
             => csvfile' = <<Header>> \o tree]_vars

RECURSIVE NumVal(_)
\* the number a run of digits denotes
NumVal(s) ==
    IF s = <<>> THEN 0
    ELSE 10 * NumVal(SubSeq(s, 1, Len(s) - 1))
         + (CHOOSE d \in 0..9 : <<"0", "1", "2", "3", "4", "5", "6", "7", "8", "9">>[d + 1] = s[Len(s)])

AllDigits(s) == s # <<>> /\ \A i \in 1..Len(s) : s[i] \in Digits

\* a cell as export_csv writes it: a run of digits as the same number without
\* leading zeros, anything else unchanged
WrittenAs(cell, out) ==
    IF AllDigits(cell)
    THEN AllDigits(out) /\ NumVal(out) = NumVal(cell) /\ (Len(out) = 1 \/ out[1] # "0")
    ELSE out = cell

\* C10, amended: the table holds the rows of the most recently consumed
\* Success (a Failure leaves it unchanged); export_csv writes a file only when
\* the table is non-empty and a path is chosen: the header, then one row per
\* table row in order, with every cell that is a run of digits written as its
\* integer value; on an empty table (no Success yet, or an empty one) it
\* writes nothing and reports that there is no data.
C10_ExportWritesTableRows ==
    [][/\ \A p \in Invocations :
             Takes(p) => tree' = (IF Head(queue).status = "success"
                                  THEN RowsOf(Head(queue).data) ELSE tree)
       /\ (tree' # tree) => \E p \in Invocations : Takes(p)
       /\ \A f \in FilePaths :
             export_csv(f) =>
                IF tree = <<>>
                THEN csvfile' = csvfile /\ dialog'.title = "No Data"
                ELSE IF f = ""
                THEN csvfile' = csvfile
                ELSE /\ Len(csvfile') = Len(tree) + 1
                     /\ csvfile'[1] = <<"Index", "Value", "Snippet">>
                     /\ \A i \in 1..Len(tree) :
                           /\ csvfile'[i + 1][1] = tree[i][1]
                           /\ WrittenAs(tree[i][2], csvfile'[i + 1][2])
                           /\ WrittenAs(tree[i][3], csvfile'[i + 1][3])
       /\ (csvfile' # csvfile) => \E f \in FilePaths : export_csv(f)]_vars

\* a file was written from a two-row Success, then an empty Success cleared
\* the table and export_csv refused to write
C10_Witness ==
    /\ csvfile = << <<"Index", "Value", "Snippet">>,
                    <<1, <<"7">>, <<"7">> >>,
                    <<2, <<"l">>, <<"l">> >> >>
    /\ tree = <<>>
    /\ status = <<"Scraped", 0, "items.">>
    /\ dialog.title = "No Data"

(* ------------------------- claims about parse -------------------------- *)

\* a step in which parse returns in worker w and the results are put
ParseDone(w) == worker[w].pc = "parse" /\ worker'[w].pc = "done"

\* the result lists of the success Outcomes in the queue
QueuedResults == {queue[i].data : i \in {j \in 1..Len(queue) : queue[j].status = "success"}}

\* C11: in every result list parse returns, in SelectAll and in BySelector
\* mode, the i-th result has index i, so the indices are 1..N for a list of
\* length N.
C11_IndicesOneToN ==
    /\ [][\A w \in Invocations :
            ParseDone(w) =>
               LET results == Last(queue').data
               IN /\ DOMAIN results = 1..Len(results)
                  /\ \A i \in 1..Len(results) : results[i].index = i]_vars
    /\ [](\A results \in QueuedResults :
            {results[i].index : i \in 1..Len(results)} = 1..Len(results))

\* lists of two results from either mode have been returned
C11_Witness ==
    \E results \in QueuedResults :
        /\ Len(results) = 2
        /\ results[2].attr = "href"
        /\ results[2].index = 2

\* C12: every result parse returns has a snippet of at most 100 characters.
C12_SnippetAtMost100 ==
    \A results \in QueuedResults :
        \A i \in 1..Len(results) : Len(results[i].snippet) <= 100

\* a text of 101 characters was cut to a snippet of 100
C12_Witness ==
    \E results \in QueuedResults :
        \E i \in 1..Len(results) :
            Len(results[i].text) = 101 /\ Len(results[i].snippet) = 100

RECURSIVE TextsOf(_)
\* the raw texts of the text nodes below a sequence of nodes, document order
TextsOf(nodes) ==
    IF nodes = <<>> THEN <<>>
    ELSE (IF IsText(Head(nodes)) THEN << Head(nodes).text >>
                                 ELSE TextsOf(Head(nodes).kids))
         \o TextsOf(Tail(nodes))

RECURSIVE Trimmed(_)
\* the texts that are non-empty after trimming, trimmed, in the same order
Trimmed(texts) ==
    IF texts = <<>> THEN <<>>
    ELSE (IF \A k \in 1..Len(Head(texts)) : Head(texts)[k] = Space
          THEN <<>> ELSE << Strip(Head(texts)) >>)
         \o Trimmed(Tail(texts))

\* s is the first SnippetLen characters of t, all of t when t is shorter
CutOf(s, t) ==
    /\ Len(s) = (IF Len(t) <= SnippetLen THEN Len(t) ELSE SnippetLen)
    /\ \A k \in 1..Len(s) : s[k] = t[k]

\* a step in which parse returns in SelectAll mode
ParseAllDone(w) == ParseDone(w) /\ worker[w].scrape_all

\* C13 as stated: in SelectAll mode every surviving text string gives one
\* result with attribute "text" whose value equals its snippet, whatever the
\* length of the string.
C13_ValueEqualsSnippet ==
    [][\A w \in Invocations :
         ParseAllDone(w) =>
            LET results == Last(queue').data
                strings == Trimmed(TextsOf(worker[w].html[1]))
            IN /\ Len(results) = Len(strings)
               /\ \A i \in 1..Len(results) :
                     /\ results[i].attr = "text"
                     /\ results[i].text = strings[i]
                     /\ results[i].text = results[i].snippet]_vars

\* C13 amended: in SelectAll mode every text string that is non-empty after
\* trimming gives one result, in document order, with attribute "text", the
\* whole trimmed string as value and its first 100 characters as snippet;
\* value and snippet are equal exactly when the string has at most 100
\* characters.
C13_ValueWholeSnippetCut ==
    [][\A w \in Invocations :
         ParseAllDone(w) =>
            LET results == Last(queue').data
                strings == Trimmed(TextsOf(worker[w].html[1]))
            IN /\ Len(results) = Len(strings)
               /\ \A i \in 1..Len(results) :
                     /\ results[i].attr = "text"
                     /\ results[i].text = strings[i]
                     /\ CutOf(results[i].snippet, strings[i])
                     /\ (results[i].text = results[i].snippet)
                           <=> (Len(strings[i]) <= 100)]_vars

\* SelectAll returned the 101-character string whole, with a snippet of 100,
\* and the short string after it with a snippet equal to it
C13_Witness ==
    \E results \in QueuedResults :
        /\ Len(results) = 2
        /\ results[1].text = LongText
        /\ results[1].snippet # results[1].text
        /\ results[2].text = <<"l">>
        /\ results[2].snippet = <<"l">>

\* C14: in SelectAll mode no result has an empty value, and the texts that
\* are empty after trimming are dropped before the indices are given: there
\* is one result per surviving text and the i-th of them has index i.
C14_NoEmptyValueNoGap ==
    [][\A w \in Invocations :
         ParseAllDone(w) =>
            LET results == Last(queue').data
                texts == TextsOf(worker[w].html[1])
                kept == {k \in 1..Len(texts) :
                            \E c \in 1..Len(texts[k]) : texts[k][c] # Space}
            IN /\ Len(results) = Cardinality(kept)
               /\ \A i \in 1..Len(results) :
                     /\ results[i].text # <<>>
                     /\ results[i].index = i]_vars

\* SelectAll on <div> <span>w</span> h </div>: the blank first text is
\* dropped and the two others are numbered 1 and 2
C14_Witness ==
    \E results \in QueuedResults :
        /\ Len(results) = 2
        /\ results[1].text = <<"w">> /\ results[1].index = 1
        /\ results[2].text = <<"h">> /\ results[2].index = 2

\* the element carries the attribute
HasAttr(el, a) == \E k \in 1..Len(el.attrs) : el.attrs[k][1] = a

\* the element's text with every piece trimmed
TrimmedText(el) == Concat(Trimmed(TextsOf(<<el>>)))

\* worker w is about to parse by selector for an attribute other than "text"
\* and some matched element lacks that attribute
LacksAttrCase(w) ==
    /\ worker[w].pc = "parse"
    /\ ~worker[w].scrape_all
    /\ worker[w].attr # "text"
    /\ ~ParseRaises(worker[w].selector, worker[w].scrape_all)
    /\ \E el \in {Select(worker[w].html[1], worker[w].selector)[i] :
                     i \in 1..Len(Select(worker[w].html[1], worker[w].selector))} :
          ~HasAttr(el, worker[w].attr)

\* C15: in BySelector mode with an attribute other than "text", a matched
\* element without that attribute gives a result with the empty string as
\* value and the element's trimmed text, cut to 100 characters, as snippet;
\* every matched element gives one result at its own position, and parse can
\* return (the missing attribute raises nothing).
C15_MissingAttrGivesEmptyValue ==
    /\ [][\A w \in Invocations :
            (ParseDone(w) /\ ~worker[w].scrape_all /\ worker[w].attr # "text") =>
               LET results == Last(queue').data
                   elements == Select(worker[w].html[1], worker[w].selector)
               IN /\ Len(results) = Len(elements)
                  /\ \A i \in 1..Len(elements) :
                        ~HasAttr(elements[i], worker[w].attr) =>
                           /\ results[i].text = <<>>
                           /\ results[i].index = i
                           /\ CutOf(results[i].snippet, TrimmedText(elements[i]))]_vars
    /\ [](\A w \in Invocations : LacksAttrCase(w) => ENABLED ParseReturns(w))

\* <a href="x">l</a><a>m</a> by selector a for href: the second result has
\* the empty value and the snippet m; <p> without href and a long text has the
\* empty value and a snippet of 100 characters
C15_Witness ==
    \E results \in QueuedResults :
        \E i \in 1..Len(results) :
            /\ results[i].attr = "href"
            /\ results[i].text = <<>>
            /\ \/ i = 2 /\ results[i].snippet = <<"m">> /\ results[1].text = <<"x">>
               \/ Len(results[i].snippet) = 100

\* worker w is about to parse by a selector its document has no match for
ZeroMatches(w) ==
    /\ worker[w].pc = "parse"
    /\ ~worker[w].scrape_all
    /\ ~ParseRaises(worker[w].selector, worker[w].scrape_all)
    /\ Select(worker[w].html[1], worker[w].selector) = <<>>

\* C16: a BySelector run whose selector matches nothing can return, and what
\* it puts is a Success with the empty sequence; the lack of matches raises
\* no selector error. The chain that takes an empty Success leaves the table
\* without rows and sets the status to "Scraped 0 items.".
C16_ZeroMatchesIsEmptySuccess ==
    /\ [](\A w \in Invocations : ZeroMatches(w) => ENABLED ParseReturns(w))
    /\ [][\A w \in Invocations :
            ZeroMatches(w) =>
               /\ ParseDone(w) => Last(queue') = Outcome("success", <<>>, w)
               /\ worker'[w].pc = "except" => worker'[w].exc = UnexpectedError]_vars
    /\ [][\A p \in Invocations :
            (Takes(p) /\ Head(queue).status = "success" /\ Head(queue).data = <<>>)
               => /\ tree' = <<>>
                  /\ status' = <<"Scraped", 0, "items.">>]_vars

\* a table whose rows had been exported was cleared by an empty Success
C16_Witness ==
    /\ csvfile # NoFile
    /\ Len(csvfile) > 1
    /\ tree = <<>>
    /\ status = <<"Scraped", 0, "items.">>
    /\ \A p \in Invocations : poller[p] = "stopped"

(* ----------------------- claims about the queue ------------------------ *)

\* the check_queue chains that are scheduled and have not taken a message
LivePollers == {p \in Invocations : poller[p] = "scheduled"}

\* the workers that were started and have not put their Outcome yet
NotYetEnqueued == {w \in Invocations : Running(w)}

\* C17: in every reachable state the number of live check_queue chains is the
\* number of workers that have not enqueued yet plus the number of Outcomes
\* in the queue; so a queued Outcome always has a live chain to take it, and
\* once every worker has finished and the queue is empty no chain is left
\* polling.
C17_PollersBalanceWork ==
    /\ Cardinality(LivePollers) = Cardinality(NotYetEnqueued) + Len(queue)
    /\ queue # <<>> => LivePollers # {}
    /\ (NotYetEnqueued = {} /\ queue = <<>>) => LivePollers = {}

\* two chains are live: one worker still runs, the other's Outcome is queued
C17_Witness ==
    /\ Cardinality(LivePollers) = 2
    /\ Cardinality(NotYetEnqueued) = 1
    /\ Len(queue) = 1

\* the number of Outcomes taken out of the queue so far
NumTaken == Len(enqueued) - Len(queue)

\* the positions, in enqueue order, of the Success Outcomes among the first n
SuccessesIn(n) == {i \in 1..n : enqueued[i].status = "success"}

\* the rows of the Success enqueued last among the first n Outcomes
RowsOfLastSuccess(n) ==
    IF SuccessesIn(n) = {} THEN <<>>
    ELSE RowsOf(enqueued[CHOOSE i \in SuccessesIn(n) :
                            \A j \in SuccessesIn(n) : j <= i].data)

\* C18: the Outcomes leave the queue in the order the workers put them,
\* whatever the order the invocations were started in: what is still queued
\* is the tail of the enqueue order, the chains have taken exactly the
\* Outcomes before it, and a chain that takes one takes the oldest left. The
\* table holds the rows of the Success enqueued last among the Outcomes taken;
\* once all are taken that is the Success enqueued last of all, whichever
\* invocation it belongs to.
C18_ConsumedInEnqueueOrder ==
    /\ [](/\ NumTaken >= 0
          /\ queue = SubSeq(enqueued, NumTaken + 1, Len(enqueued))
          /\ Cardinality({p \in Invocations : consumed[p] # 0}) = NumTaken
          /\ {consumed[p] : p \in Invocations} \ {0}
                = {enqueued[i].src : i \in 1..NumTaken}
          /\ tree = RowsOfLastSuccess(NumTaken)
          /\ (queue = <<>> /\ NotYetEnqueued = {})
                => tree = RowsOfLastSuccess(Len(enqueued)))
    /\ [][\A p \in Invocations :
            Takes(p) => /\ NumTaken < Len(enqueued)
                        /\ consumed'[p] = enqueued[NumTaken + 1].src
                        /\ enqueued' = enqueued]_vars

\* invocation 2 enqueued its Success first and invocation 1 last; both were
\* taken and the table shows the rows of invocation 1, started earlier
C18_Witness ==
    /\ Len(enqueued) = 2
    /\ queue = <<>>
    /\ enqueued[1].src = 2 /\ enqueued[1].status = "success"
    /\ enqueued[2].src = 1 /\ enqueued[2].status = "success"
    /\ enqueued[1].data # enqueued[2].data
    /\ tree = RowsOf(enqueued[2].data)
    /\ tree # <<>>

====
